---- MODULE Spec2Model ----
(***************************************************************************)
(* Model of the query compatibility executor of db/connection.js:         *)
(* convertQuestionMarksToDollars (placeholder translation) and execute    *)
(* (submission to the pg pool and normalisation of the driver result to   *)
(* the mysql2 tuple convention).                                           *)
(*                                                                         *)
(* A statement text is a sequence of one-character strings.  JavaScript   *)
(* values are tagged records, so that values of different JavaScript      *)
(* types can be compared.                                                  *)
(***************************************************************************)
EXTENDS Naturals, Sequences, FiniteSets

\* ------------------------------------------------------------------ bounds
\* longest statement text, in characters
MaxLen == 3
\* longest parameter list
MaxParams == 2
\* most rows in a driver row sequence
MaxRows == 2
\* largest affected-row count the driver reports
MaxRowCount == 2
\* execute calls that may be in flight together
NCalls == 2

Calls == 1..NCalls

\* ------------------------------------------------------------------- state
VARIABLES
  pc,          \* per call: "idle", "awaiting", "settled", "returned", "thrown"
  argSql,      \* per call: the statement text passed to execute
  argParams,    \* per call: the params argument passed to execute
  kind,        \* per call: what the statement is to the database
  poolLog,     \* the pool.query(text, values) calls made so far, in order
  settlement,  \* per call: how the promise of pool.query settled
  outcome      \* per call: how the promise of execute settled

vars == <<pc, argSql, argParams, kind, poolLog, settlement, outcome>>

\* ------------------------------------------------------- JavaScript values
Undefined == [t |-> "undefined"]
Null == [t |-> "null"]
Str(s) == [t |-> "string", s |-> s]
Num(n) == [t |-> "number", n |-> n]
Arr(items) == [t |-> "array", items |-> items]
Row(id) == [t |-> "row", id |-> id]

\* Array.isArray(v)
IsArray(v) == v.t = "array"

\* JavaScript truthiness of the values the code tests with ! and ||
Falsy(v) ==
  \/ v.t \in {"undefined", "null"}
  \/ v.t = "string" /\ v.s = <<>>
  \/ v.t = "number" /\ v.n = 0

\* a ?? b
Coalesce(a, b) == IF a.t \in {"undefined", "null"} THEN b ELSE a

\* ------------------------------------------------------------ input sets
SeqsUpTo(S, n) == UNION {[1..k -> S] : k \in 0..n}

Chars == {"a", "?", "$"}
Statements == SeqsUpTo(Chars, MaxLen) \ {<<>>}

Vals == {"p", "q"}
ParamLists == SeqsUpTo(Vals, MaxParams)
\* the params argument of execute: omitted, or a list
ParamArgs == {Undefined} \cup {Arr(l) : l \in ParamLists}

\* ------------------------------------------------- String.prototype helpers
Digit == <<"0", "1", "2", "3", "4", "5", "6", "7", "8", "9">>

\* the decimal text of a natural number, as template-literal interpolation
\* `${n}` produces it
RECURSIVE ToString(_)
ToString(n) ==
  IF n < 10 THEN <<Digit[n + 1]>>
  ELSE ToString(n \div 10) \o <<Digit[(n % 10) + 1]>>

LowerLetters == <<"a", "b", "c", "d", "e", "f", "g", "h", "i", "j", "k", "l", "m",
                  "n", "o", "p", "q", "r", "s", "t", "u", "v", "w", "x", "y", "z">>
UpperLetters == <<"A", "B", "C", "D", "E", "F", "G", "H", "I", "J", "K", "L", "M",
                  "N", "O", "P", "Q", "R", "S", "T", "U", "V", "W", "X", "Y", "Z">>

UpperChar(ch) ==
  IF \E i \in 1..Len(LowerLetters) : LowerLetters[i] = ch
  THEN UpperLetters[CHOOSE i \in 1..Len(LowerLetters) : LowerLetters[i] = ch]
  ELSE ch

\* s.toUpperCase()
toUpperCase(s) == [i \in 1..Len(s) |-> UpperChar(s[i])]

\* --------------------------------------------- convertQuestionMarksToDollars
\* the replacer callback () => `$${++index}`, with index already incremented
DollarToken(index) == <<"$">> \o ToString(index)

\* the replacement with index++ in place of ++index: tokens numbered from 0
RECURSIVE ReplaceFromPostIncrement(_, _)
ReplaceFromPostIncrement(sql, index) ==
  IF sql = <<>> THEN <<>>
  ELSE IF Head(sql) = "?"
       THEN DollarToken(index) \o ReplaceFromPostIncrement(Tail(sql), index + 1)
       ELSE <<Head(sql)>> \o ReplaceFromPostIncrement(Tail(sql), index)

\* sql.replace(/\?/g, () => `$${++index}`), scanning left to right with the
\* counter at `index` before the scan
RECURSIVE ReplaceFrom(_, _)
ReplaceFrom(sql, index) ==
  IF sql = <<>> THEN <<>>
  ELSE IF Head(sql) = "?"
       THEN DollarToken(index + 1) \o ReplaceFrom(Tail(sql), index + 1)
       ELSE <<Head(sql)>> \o ReplaceFrom(Tail(sql), index)

\* the number of query texts' markers the calls before this one had replaced
SharedIndex ==
  LET Replaced(c) ==
        IF pc[c] # "idle" /\ argParams[c].t = "array" /\ argParams[c].items # <<>>
        THEN Cardinality({i \in DOMAIN argSql[c] : argSql[c][i] = "?"})
        ELSE 0
      RECURSIVE Sum(_)
      Sum(n) == IF n = 0 THEN 0 ELSE Replaced(n) + Sum(n - 1)
  IN Sum(NCalls)

\* let index = 0
InitialIndex == 0

\* the k-th marker replaced by the k-th parameter value itself
RECURSIVE Interpolate(_, _, _)
Interpolate(sql, list, index) ==
  IF sql = <<>> THEN <<>>
  ELSE IF Head(sql) = "?"
       THEN (IF index + 1 <= Len(list) THEN <<list[index + 1]>>
             ELSE DollarToken(index + 1))
            \o Interpolate(Tail(sql), list, index + 1)
       ELSE <<Head(sql)>> \o Interpolate(Tail(sql), list, index)

convertInterpolating(sql, values) ==
  IF Falsy(values) \/ Len(values.items) = 0
  THEN [text |-> sql, values |-> Arr(<<>>)]
  ELSE [text |-> Interpolate(sql, values.items, 0), values |-> values]

\* markers replaced only while parameters remain
RECURSIVE ReplaceUpTo(_, _, _)
ReplaceUpTo(sql, index, n) ==
  IF sql = <<>> THEN <<>>
  ELSE IF Head(sql) = "?" /\ index < n
       THEN DollarToken(index + 1) \o ReplaceUpTo(Tail(sql), index + 1, n)
       ELSE <<Head(sql)>> \o ReplaceUpTo(Tail(sql), index, n)

convertWhileParametersRemain(sql, values) ==
  IF Falsy(values) \/ Len(values.items) = 0
  THEN [text |-> sql, values |-> Arr(<<>>)]
  ELSE [text |-> ReplaceUpTo(sql, 0, Len(values.items)), values |-> values]

\* the translation without the short-circuit on an empty parameter list
convertWithoutShortCircuit(sql, values) ==
  [text |-> ReplaceFrom(sql, InitialIndex),
   values |-> IF Falsy(values) THEN Arr(<<>>) ELSE values]

convertQuestionMarksToDollars(sql, values) ==
  IF Falsy(values) \/ Len(values.items) = 0
  THEN [text |-> sql, values |-> Arr(<<>>)]
  ELSE [text |-> ReplaceFrom(sql, InitialIndex), values |-> values]

\* the default of execute's second parameter: params = []
DefaultParams(arg) == IF arg.t = "undefined" THEN Arr(<<>>) ELSE arg

\* ------------------------------------------------------ the driver (pg pool)
cSELECT == <<"S", "E", "L", "E", "C", "T">>
cSelect == <<"s", "e", "l", "e", "c", "t">>
cINSERT == <<"I", "N", "S", "E", "R", "T">>
cUPDATE == <<"U", "P", "D", "A", "T", "E">>
cDELETE == <<"D", "E", "L", "E", "T", "E">>
cCREATE == <<"C", "R", "E", "A", "T", "E">>

Rows == {Row("r1"), Row("r2")}
RowSeqs == SeqsUpTo(Rows, MaxRows)
Counts == {Num(n) : n \in 0..MaxRowCount}

\* what a statement is to the database
Kinds == {"read", "mutation", "returning", "multi", "any"}

\* the native result objects pool.query may resolve with: a command tag, an
\* optional row sequence and an optional affected-row count
NativeResult(command, rows, rowCount) ==
  [command |-> command, rows |-> rows, rowCount |-> rowCount]

DriverResults(k) ==
  CASE k = "read" ->
         {NativeResult(Str(cSELECT), Arr(r), Num(Len(r))) : r \in RowSeqs}
    [] k = "mutation" ->
         {NativeResult(Str(c), r, n) :
            c \in {cINSERT, cUPDATE, cDELETE, cCREATE},
            r \in {Undefined, Arr(<<>>)},
            n \in Counts \cup {Null}}
    [] k = "returning" ->
         {NativeResult(Str(c), Arr(r), Num(Len(r))) :
            c \in {cINSERT, cUPDATE, cDELETE}, r \in RowSeqs}
    [] k = "multi" ->
         {NativeResult(Undefined, Undefined, Undefined)}
    [] k = "any" ->
         {NativeResult(c, r, n) :
            c \in {Str(cSELECT), Str(cSelect), Str(cUPDATE), Str(<<>>), Undefined},
            r \in {Undefined, Arr(<<>>), Arr(<<Row("r1")>>)},
            n \in {Undefined, Null, Num(0), Num(MaxRowCount)}}
    [] OTHER -> {}

\* the errors pool.query may reject with: connection loss, constraint
\* violation, syntax error
DriverErrors == {"ECONNREFUSED", "23505", "42601"}

Pending == [state |-> "pending"]
Fulfilled(v) == [state |-> "fulfilled", value |-> v]
Rejected(e) == [state |-> "rejected", reason |-> e]

\* ----------------------------------------------------------------- execute
\* the command tag compared as the driver reports it, without toUpperCase()
CommandOfAsReported(result) ==
  IF Falsy(result.command) THEN <<>> ELSE result.command.s

\* const command = (result.command || "").toUpperCase()
CommandOf(result) ==
  toUpperCase(IF Falsy(result.command) THEN <<>> ELSE result.command.s)

\* command === "SELECT" || Array.isArray(result.rows)
IsRead(result) == CommandOf(result) = cSELECT \/ IsArray(result.rows)

\* the whole native result in the first position, in place of its rows
ReadResultWhole(result) == Arr(<<result, Undefined>>)

\* return [result.rows, undefined]
ReadResult(result) == Arr(<<result.rows, Undefined>>)

\* return [{ affectedRows: result.rowCount ?? 0, insertId: null }]
OkPacket(result) ==
  [t |-> "object", affectedRows |-> Coalesce(result.rowCount, Num(0)),
   insertId |-> Null]
\* the status mapping followed by an explicit undefined second element
MutationResultPadded(result) == Arr(<<OkPacket(result), Undefined>>)

MutationResult(result) == Arr(<<OkPacket(result)>>)

Init ==
  /\ pc = [c \in Calls |-> "idle"]
  /\ argSql = [c \in Calls |-> <<>>]
  /\ argParams = [c \in Calls |-> Undefined]
  /\ kind = [c \in Calls |-> "none"]
  /\ poolLog = <<>>
  /\ settlement = [c \in Calls |-> Pending]
  /\ outcome = [c \in Calls |-> Pending]

\* the calls a caller may make: statement text, params argument, and what the
\* statement is to the database
Invocation(s, p, k) == [sql |-> s, params |-> p, kind |-> k]
Invocations == {Invocation(s, p, k) : s \in Statements, p \in ParamArgs, k \in Kinds}

\* execute(i.sql, i.params) up to its await: translate, then
\* pool.query(text, values)
executeCall(c, invocations) ==
  /\ pc[c] = "idle"
  /\ \E i \in invocations :
       /\ LET conv == convertQuestionMarksToDollars(i.sql, DefaultParams(i.params))
          IN poolLog' = Append(poolLog,
                [call |-> c, text |-> conv.text, values |-> conv.values])
       /\ argSql' = [argSql EXCEPT ![c] = i.sql]
       /\ argParams' = [argParams EXCEPT ![c] = i.params]
       /\ kind' = [kind EXCEPT ![c] = i.kind]
  /\ pc' = [pc EXCEPT ![c] = "awaiting"]
  /\ UNCHANGED <<settlement, outcome>>

\* the pool resolves the promise of call c's query with a native result
poolResolve(c, results) ==
  /\ pc[c] = "awaiting"
  /\ \E r \in results : settlement' = [settlement EXCEPT ![c] = Fulfilled(r)]
  /\ pc' = [pc EXCEPT ![c] = "settled"]
  /\ UNCHANGED <<argSql, argParams, kind, poolLog, outcome>>

\* the pool rejects the promise of call c's query
poolReject(c) ==
  /\ pc[c] = "awaiting"
  /\ \E e \in DriverErrors : settlement' = [settlement EXCEPT ![c] = Rejected(e)]
  /\ pc' = [pc EXCEPT ![c] = "settled"]
  /\ UNCHANGED <<argSql, argParams, kind, poolLog, outcome>>

\* execute resumes after the await with a result classified as read
executeReturnRows(c) ==
  /\ pc[c] = "settled"
  /\ settlement[c].state = "fulfilled"
  /\ IsRead(settlement[c].value)
  /\ outcome' = [outcome EXCEPT ![c] = Fulfilled(ReadResult(settlement[c].value))]
  /\ pc' = [pc EXCEPT ![c] = "returned"]
  /\ UNCHANGED <<argSql, argParams, kind, poolLog, settlement>>

\* execute resumes after the await with a result classified as mutation
executeReturnStatus(c) ==
  /\ pc[c] = "settled"
  /\ settlement[c].state = "fulfilled"
  /\ ~IsRead(settlement[c].value)
  /\ outcome' = [outcome EXCEPT ![c] = Fulfilled(MutationResult(settlement[c].value))]
  /\ pc' = [pc EXCEPT ![c] = "returned"]
  /\ UNCHANGED <<argSql, argParams, kind, poolLog, settlement>>

\* a rejected query submitted once more before the error is given up on
executeThrowAfterRetry(c) ==
  /\ pc[c] = "settled"
  /\ settlement[c].state = "rejected"
  /\ IF Cardinality({i \in DOMAIN poolLog : poolLog[i].call = c}) < 2
     THEN /\ poolLog' = Append(poolLog,
                 poolLog[CHOOSE i \in DOMAIN poolLog : poolLog[i].call = c])
          /\ pc' = [pc EXCEPT ![c] = "awaiting"]
          /\ UNCHANGED outcome
     ELSE /\ outcome' = [outcome EXCEPT ![c] = Rejected(settlement[c].reason)]
          /\ pc' = [pc EXCEPT ![c] = "thrown"]
          /\ UNCHANGED poolLog
  /\ UNCHANGED <<argSql, argParams, kind, settlement>>

\* the await throws the driver's error: execute has no try/catch
executeThrow(c) ==
  /\ pc[c] = "settled"
  /\ settlement[c].state = "rejected"
  /\ outcome' = [outcome EXCEPT ![c] = Rejected(settlement[c].reason)]
  /\ pc' = [pc EXCEPT ![c] = "thrown"]
  /\ UNCHANGED <<argSql, argParams, kind, poolLog, settlement>>

\* one caller, one call: every statement, parameter list and driver result
Next ==
  \/ executeCall(1, Invocations)
  \/ poolResolve(1, DriverResults(kind[1]))
  \/ poolReject(1)
  \/ executeReturnRows(1)
  \/ executeReturnStatus(1)
  \/ executeThrow(1)

Spec == Init /\ [][Next]_vars

\* the calls concurrent callers make, and the results the driver gives them
ConcInvocations ==
  { Invocation(<<"?", "a", "?">>, Arr(<<"p", "q">>), "read"),
    Invocation(<<"a", "?">>, Arr(<<"q">>), "mutation"),
    Invocation(<<"a", "?">>, Undefined, "read") }

ConcResults(k) ==
  CASE k = "read" ->
         { NativeResult(Str(cSELECT), Arr(<<>>), Num(0)),
           NativeResult(Str(cSELECT), Arr(<<Row("r1")>>), Num(1)) }
    [] k = "mutation" ->
         { NativeResult(Str(cUPDATE), Undefined, Num(1)),
           NativeResult(Str(cUPDATE), Arr(<<>>), Num(1)) }
    [] OTHER -> {}

\* any number of calls in flight, completed by the pool in any order
NextConc ==
  \E c \in Calls :
    \/ executeCall(c, ConcInvocations)
    \/ poolResolve(c, ConcResults(kind[c]))
    \/ poolReject(c)
    \/ executeReturnRows(c)
    \/ executeReturnStatus(c)
    \/ executeThrow(c)

SpecConc == Init /\ [][NextConc]_vars

\* ------------------------------------------------------- reading the state
\* the positions of poolLog that call c submitted
Submissions(c) == {i \in DOMAIN poolLog : poolLog[i].call = c}
\* what call c submitted to the pool
Request(c) == poolLog[CHOOSE i \in Submissions(c) : TRUE]

Started(c) == pc[c] # "idle"
\* the parameter list execute works with
GivenList(c) == IF argParams[c].t = "array" THEN argParams[c].items ELSE <<>>

\* the placeholder markers of a statement text, and the rank of marker i
Markers(s) == {i \in DOMAIN s : s[i] = "?"}
Rank(s, i) == Cardinality({j \in Markers(s) : j <= i})

\* the numeral of k, for k below 100
Numeral(k) ==
  IF k < 10 THEN <<Digit[k + 1]>> ELSE <<Digit[(k \div 10) + 1], Digit[(k % 10) + 1]>>

\* where character i of s lies in a text in which every marker before it
\* has become its token
RECURSIVE Grown(_, _)
Grown(s, i) ==
  IF i = 0 THEN 0
  ELSE Grown(s, i - 1) + (IF s[i] = "?" THEN Len(Numeral(Rank(s, i))) ELSE 0)
Pos(s, i) == i + Grown(s, i - 1)

\* t is s with the k-th marker replaced by $k and every other character in
\* place
Numbered(s, t) ==
  /\ Len(t) = Len(s) + Grown(s, Len(s))
  /\ \A i \in DOMAIN s :
       IF s[i] = "?"
       THEN SubSeq(t, Pos(s, i), Pos(s, i) + Len(Numeral(Rank(s, i))))
              = <<"$">> \o Numeral(Rank(s, i))
       ELSE t[Pos(s, i)] = s[i]

\* ------------------------------------------------------------------ claims
\* C1: for a statement with n >= 1 markers and a list of n parameters, the
\* text execute submits has the k-th marker replaced by $k, every other
\* character in place, and the values submitted are the parameters in order.
C1_MarkersNumbered ==
  \A c \in Calls :
    (Started(c) /\ Markers(argSql[c]) # {}
       /\ Len(GivenList(c)) = Cardinality(Markers(argSql[c])))
    => /\ Cardinality(Submissions(c)) = 1
       /\ Numbered(argSql[c], Request(c).text)
       /\ Request(c).values = Arr(GivenList(c))

C1_Witness ==
  \E c \in Calls :
    /\ Started(c)
    /\ Cardinality(Markers(argSql[c])) = 2
    /\ argParams[c] = Arr(<<"p", "q">>)
    /\ Request(c).text = <<"$", "1", "a", "$", "2">>
    /\ Request(c).values = Arr(<<"p", "q">>)

ElementAt(arr, i) == IF i <= Len(arr.items) THEN arr.items[i] ELSE Undefined

Returned(c) == pc[c] = "returned"
\* the native result call c's query resolved with, and what execute returned
Native(c) == settlement[c].value
Result(c) == outcome[c].value

\* the status mapping for a driver-reported count
Status(rowCount) ==
  [t |-> "object",
   affectedRows |-> IF rowCount.t = "number" THEN rowCount ELSE Num(0),
   insertId |-> Null]

\* C3: a completed mutation statement without returning clause yields the
\* status mapping {affectedRows: c, insertId: null} as first element, c the
\* driver's count or 0 when the driver reports none.
C3_MutationYieldsStatus ==
  \A c \in Calls :
    (Returned(c) /\ kind[c] = "mutation")
    => ElementAt(Result(c), 1) = Status(Native(c).rowCount)

\* C4: a completed read statement yields exactly the driver's row sequence
\* as first element and undefined as second; the first element is never a
\* status mapping and never absent.
C4_ReadYieldsRows ==
  \A c \in Calls :
    (Returned(c) /\ kind[c] = "read")
    => /\ outcome[c].state = "fulfilled"
       /\ ElementAt(Result(c), 1) = Native(c).rows
       /\ ElementAt(Result(c), 1).t = "array"
       /\ ElementAt(Result(c), 2) = Undefined

C4_Witness ==
  \E c \in Calls :
    /\ Returned(c)
    /\ kind[c] = "read"
    /\ Result(c) = Arr(<<Arr(<<Row("r2"), Row("r1")>>), Undefined>>)

C4_WitnessNoRows ==
  \E c \in Calls :
    /\ Returned(c)
    /\ kind[c] = "read"
    /\ Result(c) = Arr(<<Arr(<<>>), Undefined>>)

\* C5 as stated: every result execute returns has exactly two elements.
C5_AlwaysTwoElements ==
  \A c \in Calls : Returned(c) => Len(Result(c).items) = 2

\* a native result with the tag SELECT in any letter case, or with a row
\* sequence
SelectTag(command) ==
  /\ command.t = "string"
  /\ Len(command.s) = Len(cSELECT)
  /\ \A i \in DOMAIN cSELECT : command.s[i] \in {cSELECT[i], cSelect[i]}
CarriesRows(native) == native.rows.t = "array"
ReadClass(native) == SelectTag(native.command) \/ CarriesRows(native)

\* C5 amended: a result has two elements, the second undefined, when the
\* driver result is classified as read, and one element, the status
\* mapping, when it is classified as mutation; its second position reads
\* as undefined either way.
C5_TwoPositions ==
  \A c \in Calls :
    Returned(c)
    => /\ Len(Result(c).items) = (IF ReadClass(Native(c)) THEN 2 ELSE 1)
       /\ ElementAt(Result(c), 2) = Undefined

C5_Witness ==
  \E c \in Calls :
    /\ Returned(c)
    /\ kind[c] = "mutation"
    /\ Result(c) = Arr(<<Status(Num(MaxRowCount))>>)

\* C6: when the query fails, execute rejects with the very error the driver
\* raised and returns nothing in its place; failed or not, the statement was
\* submitted to the pool exactly once.
C6_ErrorPropagated ==
  \A c \in Calls :
    /\ Started(c) => Cardinality(Submissions(c)) = 1
    /\ settlement[c].state = "rejected"
         => /\ pc[c] \in {"settled", "thrown"}
            /\ outcome[c].state # "fulfilled"
    /\ pc[c] = "thrown"
         => /\ settlement[c].state = "rejected"
            /\ outcome[c] = Rejected(settlement[c].reason)
    /\ pc[c] = "returned" => settlement[c].state = "fulfilled"

C6_Witness ==
  \E c \in Calls :
    /\ pc[c] = "thrown"
    /\ outcome[c] = Rejected("23505")
    /\ Cardinality(Submissions(c)) = 1
\* C7: the text submitted does not depend on the parameter values: any
\* other parameter list of the same length translates the statement to the
\* very text submitted, which holds no character but the statement's own
\* and those of the tokens; the values travel in the values sequence.
C7_ValuesNeverInText ==
  \A c \in Calls :
    Started(c)
    => /\ \A other \in ParamLists :
            Len(other) = Len(GivenList(c))
            => convertQuestionMarksToDollars(argSql[c], Arr(other)).text
                 = Request(c).text
       /\ \A i \in DOMAIN Request(c).text :
            Request(c).text[i] \in Chars \cup {"$"} \cup {Digit[d] : d \in DOMAIN Digit}
       /\ Request(c).values = Arr(GivenList(c))

C7_Witness ==
  \E c \in Calls :
    /\ Started(c)
    /\ argSql[c] = <<"a", "?", "?">>
    /\ argParams[c] = Arr(<<"q", "p">>)
    /\ Request(c).text = <<"a", "$", "1", "$", "2">>
    /\ Request(c).values = Arr(<<"q", "p">>)

\* what execute returns for a native result of each class
ReadShape(native) == Arr(<<native.rows, Undefined>>)
MutationShape(native) == Arr(<<Status(native.rowCount)>>)

\* C8: a driver result is treated as read exactly when its command tag is
\* SELECT in any letter case or it carries a row sequence, and as mutation
\* otherwise: a mutation with a returning clause yields its rows, a result
\* with no command tag and no row sequence yields the status mapping.
C8_Classification ==
  \A c \in Calls :
    Returned(c)
    => /\ ReadClass(Native(c)) => Result(c) = ReadShape(Native(c))
       /\ ~ReadClass(Native(c)) => Result(c) = MutationShape(Native(c))
       /\ kind[c] = "returning" => ElementAt(Result(c), 1) = Native(c).rows
       /\ (Native(c).command = Undefined /\ Native(c).rows = Undefined)
            => Result(c) = MutationShape(Native(c))

C8_Witness ==
  \E c \in Calls :
    /\ Returned(c)
    /\ Native(c).command = Str(cSelect)
    /\ Native(c).rows = Undefined
    /\ Result(c) = Arr(<<Undefined, Undefined>>)

C8_WitnessReturning ==
  \E c \in Calls :
    /\ Returned(c)
    /\ kind[c] = "returning"
    /\ Native(c).command = Str(cINSERT)
    /\ Result(c) = Arr(<<Arr(<<Row("r1")>>), Undefined>>)

C8_WitnessNoTagNoRows ==
  \E c \in Calls :
    /\ Returned(c)
    /\ kind[c] = "multi"
    /\ Result(c) = Arr(<<Status(Undefined)>>)

\* C10: with n >= 1 parameters and m # n markers, execute submits once the
\* text with all m markers numbered $1..$m and the n parameters unchanged,
\* and raises no error of its own: it rejects only with the driver's error.
C10_MismatchUnchecked ==
  \A c \in Calls :
    (Started(c) /\ Len(GivenList(c)) >= 1
       /\ Cardinality(Markers(argSql[c])) # Len(GivenList(c)))
    => /\ Cardinality(Submissions(c)) = 1
       /\ Numbered(argSql[c], Request(c).text)
       /\ Markers(Request(c).text) = {}
       /\ Request(c).values = Arr(GivenList(c))
       /\ pc[c] = "awaiting" => outcome[c] = Pending
       /\ outcome[c].state = "rejected"
            => /\ settlement[c].state = "rejected"
               /\ outcome[c].reason = settlement[c].reason

C10_Witness ==
  \E c \in Calls :
    /\ Started(c)
    /\ argSql[c] = <<"?", "?", "?">>
    /\ argParams[c] = Arr(<<"p">>)
    /\ Request(c).text = <<"$", "1", "$", "2", "$", "3">>
    /\ Request(c).values = Arr(<<"p">>)

C10_WitnessFewerMarkers ==
  \E c \in Calls :
    /\ Returned(c)
    /\ argSql[c] = <<"a", "?">>
    /\ argParams[c] = Arr(<<"p", "q">>)
    /\ Request(c).text = <<"a", "$", "1">>
\* C9: with calls in flight together and completed in any order, each call
\* settles with the normalisation of the driver result of its own query,
\* and the text each call submits numbers its own markers from $1.
C9_CallsIndependent ==
  \A c \in Calls :
    /\ Started(c)
         => /\ Cardinality(Submissions(c)) = 1
            /\ IF GivenList(c) = <<>>
               THEN Request(c).text = argSql[c]
               ELSE Numbered(argSql[c], Request(c).text)
            /\ Request(c).values = Arr(GivenList(c))
    /\ Returned(c)
         => /\ settlement[c].state = "fulfilled"
            /\ Result(c) = (IF ReadClass(Native(c)) THEN ReadShape(Native(c))
                            ELSE MutationShape(Native(c)))
    /\ pc[c] = "thrown" => outcome[c] = Rejected(settlement[c].reason)

\* a later call has returned while an earlier one still awaits its query,
\* and each numbered its markers from $1
C9_Witness ==
  \E c1, c2 \in Calls :
    /\ Started(c1) /\ Started(c2)
    /\ (CHOOSE i \in Submissions(c1) : TRUE) < (CHOOSE i \in Submissions(c2) : TRUE)
    /\ pc[c1] = "awaiting"
    /\ Returned(c2)
    /\ Request(c1).text = <<"$", "1", "a", "$", "2">>
    /\ Request(c2).text = <<"a", "$", "1">>
    /\ Result(c2) = Arr(<<Status(Num(1))>>)
====
